---- MODULE Spec2Model ----
(***************************************************************************)
(* TaskMaster (src/src/App.tsx): the task collection held in React state,  *)
(* its handlers (addTask, updateTask, toggleTask, deleteTask, startEdit,   *)
(* cancelForm), the two effects that load it from and save it to           *)
(* localStorage, and the values derived at render (filteredTasks, stats,   *)
(* isOverdue).                                                             *)
(*                                                                         *)
(* Encoding of JavaScript values:                                          *)
(*   - a string the user types is a sequence of one-character strings      *)
(*     ('' is << >>); a priority, a category, a filter or a sort key, one  *)
(*     of a fixed list, is a string;                                        *)
(*   - a millisecond time is an integer; its ISO string and its decimal    *)
(*     string are the one-element sequence holding it; a due date          *)
(*     'YYYY-MM-DD' is the one-element sequence holding its day number;    *)
(*   - an object is a record; a key that is not set is not in its DOMAIN,  *)
(*     a key set to undefined holds the value undefined.                   *)
(***************************************************************************)
EXTENDS Integers, Sequences, FiniteSets, TLC

\* ------------------------------------------------------------------ bounds

\* The collection is capped at MaxTasks tasks (addTask is not offered beyond).
MaxTasks == 2

\* The clock advances at most MaxTicks times after the page is opened.
MaxTicks == 1

\* Clock units in one calendar day (24 h of milliseconds, scaled down).
DayLen == 2

\* --------------------------------------------------------- JavaScript values

undefined == << >>

EmptyString == << >>

\* String.prototype.trim
RECURSIVE trimStart(_)
trimStart(s) ==
  IF s # << >> /\ Head(s) = " " THEN trimStart(Tail(s)) ELSE s

RECURSIVE trimEnd(_)
trimEnd(s) ==
  IF s # << >> /\ s[Len(s)] = " " THEN trimEnd(SubSeq(s, 1, Len(s) - 1)) ELSE s

trim(s) == trimEnd(trimStart(s))

\* Date.now().toString(), new Date().toISOString()
toString(ms) == << ms >>

toISOString(ms) == << ms >>

\* new Date(s).getTime() of an ISO time stamp, and of a date-only string
\* (a date-only string is the UTC midnight of its day)
getTime(iso) == iso[1]

dateGetTime(dueDate) == dueDate[1] * DayLen

\* Date.prototype.toDateString: the calendar day in the local time zone
toDateString(ms, offset) == (ms + offset) \div DayLen

\* { ...obj, k1: v1, ... }: the keys of upd are set, the others are copied
Spread(obj, upd) ==
  [k \in DOMAIN obj \cup DOMAIN upd |-> IF k \in DOMAIN upd THEN upd[k] ELSE obj[k]]

\* obj.k, undefined when the key is not set
Get(obj, k) == IF k \in DOMAIN obj THEN obj[k] ELSE undefined

\* JSON.stringify of the task array: a key holding undefined is left out
JSONstringify(ts) ==
  [i \in 1..Len(ts) |->
     [k \in {j \in DOMAIN ts[i] : j # "completedAt" \/ ts[i][j] # undefined}
        |-> ts[i][k]]]

\* localStorage values: no item, a string that is not JSON, the JSON of an array
NoItem == [kind |-> "absent", value |-> << >>]

NotJSON == [kind |-> "corrupt", value |-> << >>]

Item(json) == [kind |-> "json", value |-> json]

\* JSON.parse throws a SyntaxError on a string that is not JSON
JSONparseThrows(item) == item.kind = "corrupt"

JSONparse(item) == item.value

\* ------------------------------------------------------------------- inputs

CATEGORIES ==
  << "Personal", "Work", "Shopping", "Health", "Learning", "Finance", "Travel", "Other" >>

\* What the user types into the form before submitting it.
Drafts ==
  { [title |-> << " " >>, description |-> << >>, priority |-> "medium",
     category |-> CATEGORIES[1], dueDate |-> << >>],
    [title |-> << " ", "a" >>, description |-> << "b", " " >>, priority |-> "high",
     category |-> CATEGORIES[2], dueDate |-> << 0 >>],
    [title |-> << "B" >>, description |-> << >>, priority |-> "low",
     category |-> CATEGORIES[3], dueDate |-> << 1 >>] }

\* The page is opened at the UTC midnight that starts day 1; day 0 is the day before.
BootTime == DayLen

\* A task saved by an earlier session (created and completed at time 0).
SavedTask ==
  [id |-> toString(0), title |-> << "a" >>, description |-> << >>,
   completed |-> TRUE, priority |-> "medium", category |-> CATEGORIES[1],
   dueDate |-> << 0 >>, createdAt |-> toISOString(0),
   completedAt |-> toISOString(0)]

\* What localStorage can hold under 'todoTasks' when the page is opened.
BootStorage == { NoItem, NotJSON, Item(<< SavedTask >>) }

\* Offsets of the local time zone from UTC, in clock units.
TimeZones == { 0 - 1, 0, 1 }

\* -------------------------------------------------------------------- state

VARIABLES
  pc,               \* "mount", "mountSave", "render", "effect": the steps of the
                    \* mount; "idle": waiting for an event; "crashed": unmounted
  thrown,           \* the exception the last effect or handler threw, or "none"
  storage,          \* localStorage 'todoTasks'
  tasks,            \* useState<Task[]>
  pendingTasks,     \* the state update queued by setTasks in the load effect
  formData,         \* useState form record
  editingTask,      \* useState<Task | null>: << >> is null, << t >> a task
  showAddForm,      \* useState(false)
  filter, sortBy, searchTerm, selectedCategory,
  now               \* the clock, Date.now()

vars ==
  << pc, thrown, storage, tasks, pendingTasks, formData, editingTask, showAddForm,
     filter, sortBy, searchTerm, selectedCategory, now >>

view == << filter, sortBy, searchTerm, selectedCategory >>

form == << formData, editingTask, showAddForm >>

EmptyForm ==
  [title |-> EmptyString, description |-> EmptyString, priority |-> "medium",
   category |-> "Personal", dueDate |-> EmptyString]

Init ==
  /\ pc = "mount"
  /\ thrown = "none"
  /\ storage \in BootStorage
  /\ tasks = << >>
  /\ pendingTasks = << >>
  /\ formData = EmptyForm
  /\ editingTask = << >>
  /\ showAddForm = FALSE
  /\ filter = "all"
  /\ sortBy = "created"
  /\ searchTerm = EmptyString
  /\ selectedCategory = ""
  /\ now = BootTime

\* ------------------------------------------------------------ derived values

\* String.prototype.toLowerCase
lowerChar(c) == IF c = "A" THEN "a" ELSE IF c = "B" THEN "b" ELSE c

toLowerCase(s) == [i \in 1..Len(s) |-> lowerChar(s[i])]

\* String.prototype.includes
includes(s, sub) ==
  \E i \in 1..(Len(s) + 1) :
    /\ i + Len(sub) - 1 =< Len(s)
    /\ SubSeq(s, i, i + Len(sub) - 1) = sub

\* String.prototype.localeCompare: letters in alphabetical order whatever their
\* case, a lower-case letter before its upper-case one, the space before letters
charRank(c) ==
  IF c = " " THEN 0
  ELSE IF c = "a" THEN 1 ELSE IF c = "A" THEN 2
  ELSE IF c = "b" THEN 3 ELSE IF c = "B" THEN 4 ELSE 5

RECURSIVE localeCompare(_, _)
localeCompare(a, b) ==
  IF a = << >> /\ b = << >> THEN 0
  ELSE IF a = << >> THEN 0 - 1
  ELSE IF b = << >> THEN 1
  ELSE IF charRank(Head(a)) # charRank(Head(b))
       THEN charRank(Head(a)) - charRank(Head(b))
       ELSE localeCompare(Tail(a), Tail(b))

priorityOrder(p) == IF p = "high" THEN 3 ELSE IF p = "medium" THEN 2 ELSE 1

\* the callback of tasks.filter in filteredTasks
passesFilter(task, f, term, cat) ==
  /\ ~(f = "active" /\ task.completed)
  /\ ~(f = "completed" /\ ~task.completed)
  /\ ~(/\ term # EmptyString
        /\ ~includes(toLowerCase(task.title), toLowerCase(term))
        /\ ~includes(toLowerCase(task.description), toLowerCase(term)))
  /\ ~(cat # "" /\ task.category # cat)

\* Array.prototype.filter
RECURSIVE arrayFilter(_, _, _, _)
arrayFilter(ts, f, term, cat) ==
  IF ts = << >> THEN << >>
  ELSE IF passesFilter(Head(ts), f, term, cat)
       THEN << Head(ts) >> \o arrayFilter(Tail(ts), f, term, cat)
       ELSE arrayFilter(Tail(ts), f, term, cat)

\* the comparator of .sort in filteredTasks: negative when a goes first
compareTasks(a, b, key) ==
  IF key = "priority" THEN priorityOrder(b.priority) - priorityOrder(a.priority)
  ELSE IF key = "dueDate" THEN
    IF a.dueDate = EmptyString /\ b.dueDate = EmptyString THEN 0
    ELSE IF a.dueDate = EmptyString THEN 1
    ELSE IF b.dueDate = EmptyString THEN 0 - 1
    ELSE dateGetTime(a.dueDate) - dateGetTime(b.dueDate)
  ELSE IF key = "alphabetical" THEN localeCompare(a.title, b.title)
  ELSE getTime(b.createdAt) - getTime(a.createdAt)

\* a sort that puts x before the elements it compares equal to
RECURSIVE insertBeforeEqual(_, _, _)
insertBeforeEqual(sorted, x, key) ==
  IF sorted = << >> THEN << x >>
  ELSE IF compareTasks(x, Head(sorted), key) =< 0 THEN << x >> \o sorted
       ELSE << Head(sorted) >> \o insertBeforeEqual(Tail(sorted), x, key)

\* Array.prototype.sort is stable: x goes after every element it does not precede
RECURSIVE insertSorted(_, _, _)
insertSorted(sorted, x, key) ==
  IF sorted = << >> THEN << x >>
  ELSE IF compareTasks(x, Head(sorted), key) < 0 THEN << x >> \o sorted
       ELSE << Head(sorted) >> \o insertSorted(Tail(sorted), x, key)

RECURSIVE arraySort(_, _)
arraySort(ts, key) ==
  IF ts = << >> THEN << >>
  ELSE insertSorted(arraySort(SubSeq(ts, 1, Len(ts) - 1), key), ts[Len(ts)], key)

\* const filteredTasks = tasks.filter(...).sort(...)
filteredTasks(ts, f, term, cat, key) == arraySort(arrayFilter(ts, f, term, cat), key)

displayed == filteredTasks(tasks, filter, searchTerm, selectedCategory, sortBy)

\* isOverdue(dueDate), with new Date() the clock
isOverdue(dueDate, clock, offset) ==
  IF dueDate = EmptyString THEN FALSE
  ELSE /\ dateGetTime(dueDate) < clock
       /\ toDateString(dateGetTime(dueDate), offset) # toDateString(clock, offset)

\* the callback of tasks.filter in stats.overdue
countsAsOverdue(t, clock) ==
  ~t.completed /\ t.dueDate # EmptyString /\ dateGetTime(t.dueDate) < clock

count(ts, P(_)) == Cardinality({i \in 1..Len(ts) : P(ts[i])})

statsCompleted(t) == t.completed

statsActive(t) == ~t.completed

stats(ts, clock) ==
  LET over(t) == countsAsOverdue(t, clock) IN
  [total |-> Len(ts),
   completed |-> count(ts, statsCompleted),
   active |-> count(ts, statsActive),
   overdue |-> count(ts, over)]

\* ------------------------------------------------------------------ effects

\* The state of an unmounted component is discarded.
Unmounted ==
  /\ tasks' = << >>
  /\ pendingTasks' = << >>
  /\ formData' = EmptyForm
  /\ editingTask' = << >>
  /\ showAddForm' = FALSE
  /\ filter' = "all"
  /\ sortBy' = "created"
  /\ searchTerm' = EmptyString
  /\ selectedCategory' = ""

\* useEffect(..., []): load the tasks from localStorage on mount. A SyntaxError
\* thrown by JSON.parse is caught nowhere: React unmounts the application, and the
\* remaining effects of the component do not run.
loadEffect ==
  /\ pc = "mount"
  /\ IF storage.kind = "absent"
       THEN /\ pc' = "mountSave"
            /\ UNCHANGED << thrown, pendingTasks >>
     ELSE IF JSONparseThrows(storage)
       THEN /\ pc' = "crashed"
            /\ thrown' = "SyntaxError"
            /\ UNCHANGED pendingTasks
     ELSE /\ pendingTasks' = << JSONparse(storage) >>
          /\ pc' = "mountSave"
          /\ UNCHANGED thrown
  /\ UNCHANGED << storage, tasks, form, view, now >>

\* localStorage.setItem('todoTasks', json): the item is overwritten
setItem(json) == Item(json)

\* the save effect with the write of an empty collection skipped
saveEffectSkipsEmpty(ts) ==
  storage' = IF ts = << >> THEN storage ELSE setItem(JSONstringify(ts))

\* useEffect(..., [tasks]): save the tasks ts of the render it follows
saveEffect(ts) ==
  storage' = setItem(JSONstringify(ts))

\* localStorage.setItem throws (QuotaExceededError): nothing is stored, and the
\* exception, caught nowhere, unmounts the application.
setItemThrows ==
  /\ pc' = "crashed"
  /\ thrown' = "QuotaExceededError"
  /\ Unmounted
  /\ UNCHANGED << storage, now >>

\* The save effect at mount and after the render of the loaded tasks. At mount it
\* sees the tasks of the first render; the update queued by the load effect is
\* rendered after it.
mountSave ==
  /\ pc \in {"mountSave", "effect"}
  /\ \/ /\ saveEffect(tasks)
        /\ pc' = IF pendingTasks # << >> THEN "render" ELSE "idle"
        /\ UNCHANGED << thrown, tasks, pendingTasks, form, view, now >>
     \/ setItemThrows

\* The render of the update queued by setTasks(JSON.parse(savedTasks)).
renderLoaded ==
  /\ pc = "render"
  /\ tasks' = pendingTasks[1]
  /\ pendingTasks' = << >>
  /\ pc' = "effect"
  /\ UNCHANGED << thrown, storage, form, view, now >>

\* ----------------------------------------------------------------- handlers

\* What follows the setState calls of a click handler, before any other event is
\* handled: the render with the new state, and the save effect, which runs because
\* tasks is another array.
Commit(ts, fd, et, show) ==
  \/ /\ tasks' = ts
     /\ formData' = fd
     /\ editingTask' = et
     /\ showAddForm' = show
     /\ saveEffect(ts)
     /\ UNCHANGED << pc, thrown, pendingTasks, view, now >>
  \/ setItemThrows

\* Time passes between two events.
tick ==
  /\ pc = "idle"
  /\ now < BootTime + MaxTicks
  /\ now' = now + 1
  /\ UNCHANGED << pc, thrown, storage, tasks, pendingTasks, form, view >>

\* onClick={() => setShowAddForm(true)}
openForm ==
  /\ pc = "idle"
  /\ ~showAddForm
  /\ showAddForm' = TRUE
  /\ UNCHANGED << pc, thrown, storage, tasks, pendingTasks, formData, editingTask,
                  view, now >>

\* The onChange handlers of the form fields (each sets its field of formData): the
\* user fills in the form, and draft is what the fields then hold.
changeForm(draft) ==
  /\ pc = "idle"
  /\ showAddForm
  /\ draft # formData
  /\ formData' = draft
  /\ UNCHANGED << pc, thrown, storage, tasks, pendingTasks, editingTask, showAddForm,
                  view, now >>

newTask(data, clock) ==
  [id |-> toString(clock),
   title |-> trim(data.title),
   description |-> trim(data.description),
   completed |-> FALSE,
   priority |-> data.priority,
   category |-> data.category,
   dueDate |-> data.dueDate,
   createdAt |-> toISOString(clock)]

\* addTask without the check of the title
addTaskUnchecked ==
  /\ pc = "idle"
  /\ showAddForm /\ editingTask = << >>
  /\ Len(tasks) < MaxTasks
  /\ Commit(<< newTask(formData, now) >> \o tasks, EmptyForm, editingTask, FALSE)

\* addTask with the new task put last
addTaskAppends ==
  /\ pc = "idle"
  /\ showAddForm /\ editingTask = << >>
  /\ Len(tasks) < MaxTasks
  /\ IF trim(formData.title) = EmptyString
       THEN UNCHANGED vars
       ELSE Commit(tasks \o << newTask(formData, now) >>, EmptyForm, editingTask, FALSE)

addTask ==
  /\ pc = "idle"
  /\ showAddForm /\ editingTask = << >>
  /\ Len(tasks) < MaxTasks
  /\ IF trim(formData.title) = EmptyString
       THEN UNCHANGED vars
       ELSE Commit(<< newTask(formData, now) >> \o tasks, EmptyForm, editingTask, FALSE)

\* the object updateTask maps the edited task to
updatedTask(task, data) ==
  Spread(task, [title |-> trim(data.title),
                description |-> trim(data.description),
                priority |-> data.priority,
                category |-> data.category,
                dueDate |-> data.dueDate])

updateTask ==
  /\ pc = "idle"
  /\ showAddForm
  /\ IF editingTask = << >> \/ trim(formData.title) = EmptyString
       THEN UNCHANGED vars
       ELSE Commit([i \in 1..Len(tasks) |->
                      IF tasks[i].id = editingTask[1].id
                        THEN updatedTask(tasks[i], formData)
                        ELSE tasks[i]],
                   EmptyForm, << >>, showAddForm)

\* toggledTask with completedAt never cleared
toggledTaskKeepsStamp(task, clock) ==
  Spread(task, [completed |-> ~task.completed, completedAt |-> toISOString(clock)])

\* the object toggleTask maps the toggled task to
toggledTask(task, clock) ==
  Spread(task, [completed |-> ~task.completed,
                completedAt |-> IF ~task.completed THEN toISOString(clock)
                                                   ELSE undefined])

toggleTask(id) ==
  /\ pc = "idle"
  /\ Commit([i \in 1..Len(tasks) |->
               IF tasks[i].id = id THEN toggledTask(tasks[i], now) ELSE tasks[i]],
            formData, editingTask, showAddForm)

\* a filter that stops at the first task it drops
RECURSIVE withoutFirstId(_, _)
withoutFirstId(ts, id) ==
  IF ts = << >> THEN << >>
  ELSE IF Head(ts).id # id THEN << Head(ts) >> \o withoutFirstId(Tail(ts), id)
       ELSE Tail(ts)

\* prev.filter(task => task.id !== id)
RECURSIVE withoutId(_, _)
withoutId(ts, id) ==
  IF ts = << >> THEN << >>
  ELSE IF Head(ts).id # id THEN << Head(ts) >> \o withoutId(Tail(ts), id)
       ELSE withoutId(Tail(ts), id)

deleteTask(id) ==
  /\ pc = "idle"
  /\ Commit(withoutId(tasks, id), formData, editingTask, showAddForm)

startEdit(task) ==
  /\ pc = "idle"
  /\ editingTask' = << task >>
  /\ formData' = [title |-> task.title,
                  description |-> task.description,
                  priority |-> task.priority,
                  category |-> task.category,
                  dueDate |-> task.dueDate]
  /\ showAddForm' = TRUE
  /\ UNCHANGED << pc, thrown, storage, tasks, pendingTasks, view, now >>

cancelForm ==
  /\ pc = "idle"
  /\ showAddForm
  /\ formData' = EmptyForm
  /\ showAddForm' = FALSE
  /\ editingTask' = << >>
  /\ UNCHANGED << pc, thrown, storage, tasks, pendingTasks, view, now >>

\* The choices of the filter panel; onChange fires when the choice changes.
Filters == {"all", "active", "completed"}

SortKeys == {"created", "priority", "dueDate", "alphabetical"}

SearchTerms == {EmptyString, << "B" >>}

CategoryChoices == {"", CATEGORIES[2]}

setFilter(f) ==
  /\ pc = "idle"
  /\ f # filter
  /\ filter' = f
  /\ UNCHANGED << pc, thrown, storage, tasks, pendingTasks, form,
                  sortBy, searchTerm, selectedCategory, now >>

setSortBy(key) ==
  /\ pc = "idle"
  /\ key # sortBy
  /\ sortBy' = key
  /\ UNCHANGED << pc, thrown, storage, tasks, pendingTasks, form,
                  filter, searchTerm, selectedCategory, now >>

setSearchTerm(term) ==
  /\ pc = "idle"
  /\ term # searchTerm
  /\ searchTerm' = term
  /\ UNCHANGED << pc, thrown, storage, tasks, pendingTasks, form,
                  filter, sortBy, selectedCategory, now >>

setSelectedCategory(cat) ==
  /\ pc = "idle"
  /\ cat # selectedCategory
  /\ selectedCategory' = cat
  /\ UNCHANGED << pc, thrown, storage, tasks, pendingTasks, form,
                  filter, sortBy, searchTerm, now >>

\* The buttons of a task are those of the displayed tasks.
Shown == {displayed[i] : i \in 1..Len(displayed)}

\* The steps of the effects, of the clock, and of the buttons and fields of the
\* form and of the displayed tasks.
NextStore ==
  \/ loadEffect
  \/ mountSave
  \/ renderLoaded
  \/ tick
  \/ openForm
  \/ \E d \in Drafts : changeForm(d)
  \/ addTask
  \/ updateTask
  \/ \E t \in Shown : toggleTask(t.id)
  \/ \E t \in Shown : deleteTask(t.id)
  \/ \E t \in Shown : startEdit(t)
  \/ cancelForm

\* The choices of the filter panel.
NextView ==
  \/ \E f \in Filters : setFilter(f)
  \/ \E k \in SortKeys : setSortBy(k)
  \/ \E q \in SearchTerms : setSearchTerm(q)
  \/ \E c \in CategoryChoices : setSelectedCategory(c)

Next == NextStore \/ NextView

\* Every handler of the application.
Spec == Init /\ [][Next]_vars

\* The application with the filter panel left as it is when the page opens (every
\* task is displayed, newest first).
SpecStore == Init /\ [][NextStore]_vars

\* ------------------------------------------------------------------- claims

Indices == 1..Len(tasks)

formTitleBlank == trim(formData.title) = EmptyString

\* the handler of the step ran to its end (the save effect included)
completes == pc' = "idle"

\* C1: no two tasks of the collection have the same id, in every reachable state,
\* also when two tasks are created within the same clock instant.
C1_IdsUnique ==
  \A i, j \in Indices : i # j => tasks[i].id # tasks[j].id

\* C2: for every task of the collection, completedAt is present if and only if
\* completed is true.
C2_CompletedAtIffCompleted ==
  \A i \in Indices : (Get(tasks[i], "completedAt") # undefined) <=> tasks[i].completed

\* A task was completed, another was completed and reopened (its completedAt key
\* holds undefined).
C2_Witness ==
  \E i, j \in Indices :
    /\ tasks[i].completed /\ tasks[i].completedAt = toISOString(now)
    /\ ~tasks[j].completed /\ "completedAt" \in DOMAIN tasks[j]

C3_TitlesNotBlank ==
  \A i \in Indices : trim(tasks[i].title) # EmptyString

\* C3: addTask and updateTask called with a title that is empty once trimmed leave
\* the collection as it is, and no task of the collection has an empty or
\* whitespace-only title.
C3_BlankTitleRejected ==
  /\ [](C3_TitlesNotBlank)
  /\ [][(formTitleBlank /\ (addTask \/ updateTask)) => tasks' = tasks]_vars

\* The form holds a whitespace-only title while a task is being edited, and the
\* collection holds a task whose title was trimmed when it was created.
C3_Witness ==
  /\ pc = "idle" /\ showAddForm /\ editingTask # << >>
  /\ formData.title # EmptyString /\ formTitleBlank
  /\ \E i \in Indices : tasks[i].title = << "a" >> /\ tasks[i].id = toString(now)

\* The fields a form submits, and the fields it never touches.
DraftFields == {"title", "description", "priority", "category", "dueDate"}

SameExcept(t1, t2, fields) ==
  \A k \in {"id", "title", "description", "completed", "priority", "category",
            "dueDate", "createdAt", "completedAt"} \ fields :
    Get(t1, k) = Get(t2, k)

editedIdPresent ==
  editingTask # << >> /\ \E i \in Indices : tasks[i].id = editingTask[1].id

\* tasks' is tasks with the task at index p edited as the form says, its id,
\* createdAt, completed and completedAt kept, and every other task as it was
UpdatedOnlyAt(p) ==
  /\ Len(tasks') = Len(tasks)
  /\ tasks'[p].title = trim(formData.title)
  /\ tasks'[p].description = trim(formData.description)
  /\ tasks'[p].priority = formData.priority
  /\ tasks'[p].category = formData.category
  /\ tasks'[p].dueDate = formData.dueDate
  /\ SameExcept(tasks'[p], tasks[p], DraftFields)
  /\ \A q \in Indices \ {p} : tasks'[q] = tasks[q]

\* C4: a successful update replaces title, description, priority, category and
\* dueDate of the edited task, keeps its id, createdAt, completed and completedAt
\* as the store held them just before, and leaves every other task unchanged.
C4_UpdateFrame ==
  [][(updateTask /\ completes /\ ~formTitleBlank /\ editedIdPresent)
       => \E p \in Indices : tasks[p].id = editingTask[1].id /\ UpdatedOnlyAt(p)]_vars

\* C5: an update that references an id that is not in the collection fails with a
\* NotFoundError and leaves the collection unchanged.
C5_MissingIdFails ==
  [][(updateTask /\ completes /\ editingTask # << >> /\ ~formTitleBlank
        /\ ~editedIdPresent)
       => (thrown' = "NotFoundError" /\ tasks' = tasks)]_vars

\* C6: once the save effect that a mutation (or the mount) triggers has run, the
\* value stored under 'todoTasks' is the JSON of the whole current collection, and
\* parsing it gives back every task, field by field.
C6_StoredEqualsTasks ==
  pc = "idle" =>
    /\ storage = Item(JSONstringify(tasks))
    /\ Len(JSONparse(storage)) = Len(tasks)
    /\ \A i \in Indices : SameExcept(JSONparse(storage)[i], tasks[i], {})

\* The collection was changed (a task was completed and reopened, so its
\* completedAt key holds undefined, which the JSON leaves out) and then saved.
C6_Witness ==
  /\ pc = "idle"
  /\ Len(tasks) = MaxTasks
  /\ \E i \in Indices : "completedAt" \in DOMAIN tasks[i] /\ ~tasks[i].completed
  /\ storage.kind = "json" /\ storage.value # tasks

\* C7: a stored value that cannot be parsed is never fatal at startup.
C7_LoadNeverFatal ==
  ~(pc = "crashed" /\ thrown = "SyntaxError")

\* isOverdue(task.dueDate) && !task.completed, as the task list marks a task
markedOverdue(task, clock, offset) ==
  isOverdue(task.dueDate, clock, offset) /\ ~task.completed

perTaskOverdue(clock, offset) ==
  Cardinality({i \in Indices : markedOverdue(tasks[i], clock, offset)})

\* the calendar day the user is in
LocalToday(clock, offset) == (clock + offset) \div DayLen

\* C8: the overdue counter of the stats equals the number of tasks that are not
\* completed and that isOverdue classifies as overdue, and a task due on the
\* current calendar day is not overdue at any time of that day.
C8_OverdueCounterAgrees ==
  \A offset \in TimeZones :
    /\ stats(tasks, now).overdue = perTaskOverdue(now, offset)
    /\ \A i \in Indices :
         tasks[i].dueDate = << LocalToday(now, offset) >>
           => ~markedOverdue(tasks[i], now, offset)

RECURSIVE IsSubsequence(_, _)
IsSubsequence(sub, full) ==
  IF sub = << >> THEN TRUE
  ELSE IF full = << >> THEN FALSE
  ELSE IF Head(sub) = Head(full) THEN IsSubsequence(Tail(sub), Tail(full))
  ELSE IsSubsequence(sub, Tail(full))

SamePositions ==
  /\ Len(tasks') = Len(tasks)
  /\ \A i \in Indices :
       tasks'[i].id = tasks[i].id /\ tasks'[i].createdAt = tasks[i].createdAt

ToggledOnlyAt(p) ==
  /\ Len(tasks') = Len(tasks)
  /\ tasks'[p].completed = ~tasks[p].completed
  /\ Get(tasks'[p], "completedAt")
       = IF tasks[p].completed THEN undefined ELSE toISOString(now)
  /\ SameExcept(tasks'[p], tasks[p], {"completed", "completedAt"})
  /\ \A q \in Indices \ {p} : tasks'[q] = tasks[q]

\* C10: toggle(id) flips completed of the task, sets completedAt to the current
\* time when completed becomes true and clears it when completed becomes false (so
\* two toggles restore completed, with completedAt absent if it was false), and
\* changes no other field and no other task.
C10_ToggleFrame ==
  [][\A t \in Shown :
       (toggleTask(t.id) /\ completes) => \E p \in Indices : tasks[p].id = t.id /\ ToggledOnlyAt(p)]_vars

\* the ids a task can have had: the readings of the clock, as strings
Ids == {toString(ms) : ms \in 0..(BootTime + MaxTicks)}

\* after is before with every task of that id taken out, the others kept in order
RemovedExactly(before, after, id) ==
  /\ IsSubsequence(after, before)
  /\ \A i \in 1..Len(after) : after[i].id # id
  /\ Len(after) = Cardinality({i \in 1..Len(before) : before[i].id # id})

\* what deleteTask makes of the collection, for any id: the tasks of that id are
\* gone and nothing else, a second application changes nothing, and an id that is
\* not in the collection leaves it as it is
DeleteIsIdempotent ==
  \A id \in Ids :
    /\ RemovedExactly(tasks, withoutId(tasks, id), id)
    /\ withoutId(withoutId(tasks, id), id) = withoutId(tasks, id)
    /\ (\A i \in Indices : tasks[i].id # id) => withoutId(tasks, id) = tasks

\* C11: deleteTask(id) removes exactly the tasks with that id and nothing else; a
\* second deleteTask(id), or a deleteTask of an id that is not in the collection,
\* leaves the collection identical and raises no error.
C11_DeleteIdempotent ==
  /\ [](DeleteIsIdempotent)
  /\ [][\A t \in Shown :
          (deleteTask(t.id) /\ completes)
            => /\ RemovedExactly(tasks, tasks', t.id)
               /\ withoutId(tasks', t.id) = tasks'
               /\ thrown' = "none"]_vars

\* The task being edited was deleted while others remain: its id is one that is
\* no longer in the collection, and deleting it again is the second delete.
C11_Witness ==
  /\ pc = "idle"
  /\ editingTask # << >>
  /\ ~editedIdPresent
  /\ tasks # << >>
  /\ editingTask[1].id \in Ids

\* two characters that are the same letter, whatever their case
SameLetter(c, d) ==
  \/ c = d
  \/ {c, d} = {"a", "A"}
  \/ {c, d} = {"b", "B"}

\* sub occurs in s, the case of the letters ignored
ContainsIgnoringCase(s, sub) ==
  \E i \in 0..(Len(s) - Len(sub)) :
    \A k \in 1..Len(sub) : SameLetter(s[i + k], sub[k])

\* the task is one the filter panel asks for
Matches(task) ==
  /\ \/ filter = "all"
     \/ filter = "active" /\ ~task.completed
     \/ filter = "completed" /\ task.completed
  /\ \/ searchTerm = EmptyString
     \/ ContainsIgnoringCase(task.title, searchTerm)
     \/ ContainsIgnoringCase(task.description, searchTerm)
  /\ \/ selectedCategory = ""
     \/ task.category = selectedCategory

Occurrences(ts, t) == Cardinality({i \in 1..Len(ts) : ts[i] = t})

\* the displayed list holds the tasks that match, each as many times as the
\* collection holds it, and no other
DisplayedExactlyMatches ==
  /\ \A i \in 1..Len(displayed) : Matches(displayed[i])
  /\ \A i \in Indices :
       Occurrences(displayed, tasks[i])
         = IF Matches(tasks[i]) THEN Occurrences(tasks, tasks[i]) ELSE 0

Rank(p) == CASE p = "high" -> 1 [] p = "medium" -> 2 [] p = "low" -> 3

\* high, then medium, then low, and the tasks of one priority in the order the
\* collection has them
DisplayedByPriority ==
  /\ \A i, j \in 1..Len(displayed) :
       i < j => Rank(displayed[i].priority) =< Rank(displayed[j].priority)
  /\ \A p \in {"high", "medium", "low"} :
       LET ofPriority(t) == t.priority = p
           matching(t) == Matches(t) /\ t.priority = p
       IN  SelectSeq(displayed, ofPriority) = SelectSeq(tasks, matching)

\* C12: for every collection and every choice of filter, search term and
\* category, the displayed list holds exactly the tasks that pass the status
\* filter, contain the search term (case ignored) in their title or description
\* when there is one, and are of the chosen category when there is one; sorted by
\* priority it shows high, then medium, then low, tasks of equal priority in
\* their order in the stored collection.
C12_DisplayedList ==
  /\ DisplayedExactlyMatches
  /\ sortBy = "priority" => DisplayedByPriority

\* Sorted by priority, with a search term that both tasks contain, two distinct
\* tasks of equal priority are displayed.
C12_Witness ==
  /\ pc = "idle"
  /\ sortBy = "priority"
  /\ searchTerm = << "B" >>
  /\ Len(tasks) = 2
  /\ Len(displayed) = 2
  /\ displayed[1].priority = displayed[2].priority
  /\ displayed[1] # displayed[2]

\* what an earlier session left under 'todoTasks': a collection of one task
SavedBefore == Item(<< SavedTask >>)

\* the application is starting up with that collection saved: it is about to
\* load it, has loaded it and not yet rendered it, or has rendered it and not
\* yet saved it again
StartingWithSaved ==
  \/ pc = "mount" /\ storage = SavedBefore
  \/ pc \in {"mountSave", "render"} /\ pendingTasks = << JSONparse(SavedBefore) >>
  \/ pc = "effect"

\* C13: with a non-empty collection saved before startup, the value stored under
\* 'todoTasks' is that collection in every state of the startup (after the load
\* effect, after the save effect of the first render, after the render of the
\* loaded tasks and after the save effect that follows), and when the startup is
\* complete the collection in memory is the saved one.
C13_StartupKeepsSaved ==
  /\ [](StartingWithSaved => storage = SavedBefore)
  /\ [][(pc = "effect" /\ completes)
          => (tasks' = JSONparse(SavedBefore) /\ storage' = SavedBefore)]_vars

====
